---------------------------- MODULE Spec2Model ----------------------------
(***************************************************************************)
(* State-machine model of the MSM USB DBM 1.5 driver                       *)
(* (drivers/usb/dwc3/dbm-1_5.c).                                           *)
(*                                                                         *)
(* A 32-bit register value is the set of the positions of its set bits     *)
(* (a subset of 0..31): AND is intersection, OR is union, a left shift     *)
(* moves every position up and drops what leaves the word.                 *)
(***************************************************************************)
EXTENDS Integers, Sequences, FiniteSets

(* ------------------------------ bounds --------------------------------- *)

\* Number of entry-point calls explored from the state after probe.
MaxCalls == 4

\* Number of calls explored where the inputs are narrowed to the round trip.
MaxRoundTripCalls == 5

(* --------------------------- 32-bit words ------------------------------ *)

W32 == 0 .. 31

\* The u32 whose value is the natural number n (n < 2^31).
RECURSIVE BitsFrom(_, _)
BitsFrom(n, i) == IF n = 0 THEN {} ELSE (IF n % 2 = 1 THEN {i} ELSE {}) \cup BitsFrom(n \div 2, i + 1)
ToBits(n) == BitsFrom(n, 0)

\* u32 left shift by k < 32: bits shifted past bit 31 are lost.
Shl(w, k) == { b + k : b \in w } \cap W32

\* u32 right shift.
Shr(w, k) == { b - k : b \in { c \in w : c >= k } }

SetMin(S) == CHOOSE x \in S : \A y \in S : x <= y

\* find_first_bit(&mask, 32): index of the lowest set bit, 32 when none is set.
find_first_bit(mask) == IF mask = {} THEN 32 ELSE SetMin(mask)

\* lower_32_bits / upper_32_bits of a 64-bit phys_addr_t (a subset of 0..63).
lower_32_bits(a) == a \cap W32
upper_32_bits(a) == { b - 32 : b \in { c \in a : c >= 32 } }

(* ------------------------ register layout ------------------------------ *)

DBM_1_5_NUM_EP == 8

DBM_EP_CFG(n) == 0 + 4 * n
DBM_DATA_FIFO_SIZE(n) == 128 + 4 * n
DBM_DATA_FIFO_LSB(n) == 256 + 8 * n
DBM_DATA_FIFO_MSB(n) == 260 + 8 * n
DBM_DATA_FIFO_ADDR_EN == 512
DBM_DATA_FIFO_SIZE_EN == 516
DBM_DBG_CNFG == 520
DBM_SOFT_RESET == 524
DBM_GEN_CFG == 528
DBM_GEVNTADR_LSB == 608
DBM_GEVNTADR_MSB == 612
DBM_GEVNTSIZ == 616

\* Field masks of dbm.h.
DBM_EN_EP == {0}
USB3_EPNUM == 1 .. 5
DBM_PRODUCER == {8}
DBM_DISABLE_WB == {9}
DBM_INT_RAM_ACC == {10}
DBM_DATA_FIFO_SIZE_MASK == 0 .. 15
DBM_GEVNTSIZ_MASK == 0 .. 15
DBM_ENABLE_IOC_MASK == 0 .. 7
DBM_SFT_RST_EPS_MASK == 0 .. 7
DBM_SFT_RST_MASK == {31}

ENODEV == 19
EINVAL == 22


(* --------------------------- input samples ----------------------------- *)

\* Logical endpoint numbers (u8) offered to the entry points: 0, the table's
\* "unassigned" marker, which a caller can still pass; 1, which fits the
\* 5-bit endpoint-number field; and 162 (0xA2), which does not: 162 << 1
\* reaches register bits 2, 6 and 8.
Eps == {0, 1, 162}

\* Destination slot indices offered to data_fifo_config: the first slot, the
\* last slot, and the first index past the 8-entry table.
PipeIdxs == {0, DBM_1_5_NUM_EP - 1, DBM_1_5_NUM_EP}

\* (producer, disable_wb, internal_mem, ioc) combinations offered to ep_config.
CfgFlags == { <<FALSE, FALSE, FALSE, FALSE>>,
              <<TRUE, TRUE, TRUE, TRUE>>,
              <<FALSE, TRUE, FALSE, TRUE>> }

\* phys_addr_t 0x1_0000_2000 and the FIFO size 4096.
FifoAddr == {13, 32}
FifoSize == ToBits(4096)

\* Event buffer: address halves and the sizes offered (negative, and one
\* wider than the 16-bit size field).
EvtAddrLo == ToBits(8192)
EvtAddrHi == ToBits(1)
EvtSizes == {-1, 69632}

\* The narrower samples of the five-call exploration.
RoundTripEps == {1, 162}
RoundTripIdxs == {0, DBM_1_5_NUM_EP - 1}

RegOffsets ==
    { DBM_EP_CFG(n) : n \in 0 .. DBM_1_5_NUM_EP - 1 }
    \cup { DBM_DATA_FIFO_SIZE(n) : n \in 0 .. DBM_1_5_NUM_EP }
    \cup { DBM_DATA_FIFO_LSB(n) : n \in 0 .. DBM_1_5_NUM_EP }
    \cup { DBM_DATA_FIFO_MSB(n) : n \in 0 .. DBM_1_5_NUM_EP }
    \cup { DBM_DATA_FIFO_ADDR_EN, DBM_DATA_FIFO_SIZE_EN, DBM_GEN_CFG,
           DBM_DBG_CNFG, DBM_SOFT_RESET,
           DBM_GEVNTADR_LSB, DBM_GEVNTADR_MSB, DBM_GEVNTSIZ }

(* ------------------------------- state --------------------------------- *)

VARIABLES
    ep_num_mapping,  \* dbm_data->ep_num_mapping: slot index -> logical endpoint
    regs,            \* the register window: offset -> 32-bit content
    oob,             \* stores of data_fifo_config past the table: <<index, byte>>
    op,              \* the last entry point called
    args,            \* its arguments
    ret,             \* its return value
    log,             \* what it did, in order: stores, register writes, delays
    prev,            \* the call before it: [op, args, ret, log]
    calls,           \* number of calls made
    ub_shl,          \* what this build's u32 shift by 32 yields: TRUE the value
                     \* unshifted (count taken mod 32), FALSE zero
    fw               \* one masked field write on its own: [reg, mask, val, out, done]

vars == <<ep_num_mapping, regs, oob, op, args, ret, log, prev, calls, ub_shl, fw>>

NoArgs == [usb_ep |-> 0, idx |-> 0, producer |-> FALSE, disable_wb |-> FALSE,
           internal_mem |-> FALSE, ioc |-> FALSE, size |-> 0, on |-> FALSE]

NoCall == [op |-> "none", args |-> NoArgs, ret |-> 0, log |-> <<>>]

NoFw == [reg |-> {}, mask |-> {}, val |-> {}, out |-> {}, done |-> FALSE]

(* ----------------------- register access layer ------------------------- *)

\* One logged step of a call.  k: "write" (iowrite32 of val at off),
\* "field" (masked write of val under mask at off), "map" (store of val in
\* ep_num_mapping[off]), "udelay" (busy wait of off microseconds).  old is the
\* content before and new the content after.
Ev(k, off, mask, val, old, new) ==
    [k |-> k, off |-> off, mask |-> mask, val |-> val, old |-> old, new |-> new]

\* val << shift on a u32; a shift by 32 is undefined and yields what the
\* build makes of it.
ShiftLeft32(val, shift, wrap) ==
    IF shift < 32 THEN Shl(val, shift) ELSE IF wrap THEN val ELSE {}

\* The register content msm_dbm_write_reg_field writes back.
msm_dbm_write_reg_field(tmp, mask, val, wrap) ==
    (tmp \ mask) \cup ShiftLeft32(val, find_first_bit(mask), wrap)

msm_dbm_read_reg(m, off) == m.regs[off]

msm_dbm_write_reg(m, off, val) ==
    [m EXCEPT !.regs[off] = val,
              !.log = Append(@, Ev("write", off, W32, val, m.regs[off], val))]

WriteField(m, off, mask, val) ==
    LET new == msm_dbm_write_reg_field(m.regs[off], mask, val, m.wrap)
    IN  [m EXCEPT !.regs[off] = new,
                  !.log = Append(@, Ev("field", off, mask, val, m.regs[off], new))]

udelay(m, usecs) ==
    [m EXCEPT !.log = Append(@, Ev("udelay", usecs, {}, {}, {}, {}))]

\* dbm_data->ep_num_mapping[i] = v.  The table has DBM_1_5_NUM_EP entries; a
\* store at an index past it lands outside the table.
StoreMapping(m, i, v) ==
    IF i < DBM_1_5_NUM_EP
    THEN [m EXCEPT !.map[i] = v,
                   !.log = Append(@, Ev("map", i, {}, ToBits(v), ToBits(m.map[i]), ToBits(v)))]
    ELSE [m EXCEPT !.oob = @ \cup {<<i, v>>},
                   !.log = Append(@, Ev("map", i, {}, ToBits(v), {}, ToBits(v)))]

Result(m, r) == [m |-> m, ret |-> r]

(* ----------------------------- handlers -------------------------------- *)

\* Mutant: the lookup reports slot 0 when it finds no match.
find_matching_returns_zero(map, usb_ep) ==
    IF \E i \in 0 .. DBM_1_5_NUM_EP - 1 : map[i] = usb_ep
    THEN SetMin({ i \in 0 .. DBM_1_5_NUM_EP - 1 : map[i] = usb_ep })
    ELSE 0

\* Slot index bound to usb_ep (the first match), or -ENODEV.
msm_dbm_find_matching_dbm_ep(map, usb_ep) ==
    IF \E i \in 0 .. DBM_1_5_NUM_EP - 1 : map[i] = usb_ep
    THEN SetMin({ i \in 0 .. DBM_1_5_NUM_EP - 1 : map[i] = usb_ep })
    ELSE -ENODEV

\* Global reset: sets or clears the block's reset bit.
soft_reset(m, reset) ==
    Result(WriteField(m, DBM_SOFT_RESET, DBM_SFT_RST_MASK,
                      IF reset THEN ToBits(1) ELSE ToBits(0)), 0)

dbm_ep_soft_reset(m, dbm_ep, enter_reset) ==
    IF dbm_ep >= DBM_1_5_NUM_EP
    THEN Result(m, -ENODEV)
    ELSE Result(WriteField(m, DBM_SOFT_RESET, DBM_SFT_RST_EPS_MASK \cap {dbm_ep},
                           IF enter_reset THEN ToBits(1) ELSE ToBits(0)), 0)

\* Mutant: the last slot refuses the other direction.
LastEpRefusesConsumer(dbm_ep, producer) == dbm_ep = 7 /\ ~producer

\* The hardware restriction on the last slot.
LastEpRefused(dbm_ep, producer) == dbm_ep = 7 /\ producer

\* Mutant: the enable bit is set before the endpoint number is written.
ep_config_enable_first(m, usb_ep, bam_pipe, producer, disable_wb, internal_mem, ioc) ==
    LET dbm_ep == msm_dbm_find_matching_dbm_ep(m.map, usb_ep)
        ep_cfg == (IF producer THEN DBM_PRODUCER ELSE {})
                  \cup (IF disable_wb THEN DBM_DISABLE_WB ELSE {})
        m1 == dbm_ep_soft_reset(m, dbm_ep, FALSE).m
        m2 == WriteField(m1, DBM_DBG_CNFG, DBM_ENABLE_IOC_MASK \cap {dbm_ep},
                         IF ioc THEN ToBits(1) ELSE ToBits(0))
        m3 == WriteField(m2, DBM_EP_CFG(dbm_ep),
                         DBM_PRODUCER \cup DBM_DISABLE_WB \cup DBM_INT_RAM_ACC,
                         Shr(ep_cfg, 8))
        m4 == WriteField(m3, DBM_EP_CFG(dbm_ep), DBM_EN_EP, ToBits(1))
        m5 == WriteField(m4, DBM_EP_CFG(dbm_ep), USB3_EPNUM, ToBits(usb_ep))
    IN  IF dbm_ep < 0 THEN Result(m, -ENODEV)
        ELSE IF LastEpRefused(dbm_ep, producer) THEN Result(m, -ENODEV)
        ELSE Result(m5, dbm_ep)

ep_config(m, usb_ep, bam_pipe, producer, disable_wb, internal_mem, ioc) ==
    LET dbm_ep == msm_dbm_find_matching_dbm_ep(m.map, usb_ep)
        int_mem == FALSE
        ep_cfg == (IF producer THEN DBM_PRODUCER ELSE {})
                  \cup (IF disable_wb THEN DBM_DISABLE_WB ELSE {})
                  \cup (IF int_mem THEN DBM_INT_RAM_ACC ELSE {})
        m1 == dbm_ep_soft_reset(m, dbm_ep, FALSE).m
        m2 == WriteField(m1, DBM_DBG_CNFG, DBM_ENABLE_IOC_MASK \cap {dbm_ep},
                         IF ioc THEN ToBits(1) ELSE ToBits(0))
        m3 == WriteField(m2, DBM_EP_CFG(dbm_ep),
                         DBM_PRODUCER \cup DBM_DISABLE_WB \cup DBM_INT_RAM_ACC,
                         Shr(ep_cfg, 8))
        m4 == WriteField(m3, DBM_EP_CFG(dbm_ep), USB3_EPNUM, ToBits(usb_ep))
        m5 == WriteField(m4, DBM_EP_CFG(dbm_ep), DBM_EN_EP, ToBits(1))
    IN  IF dbm_ep < 0 THEN Result(m, -ENODEV)
        ELSE IF LastEpRefused(dbm_ep, producer) THEN Result(m, -ENODEV)
        ELSE Result(m5, dbm_ep)

\* Mutant: the reset is deasserted without waiting.
ep_unconfig_no_delay(m, usb_ep) ==
    LET dbm_ep == msm_dbm_find_matching_dbm_ep(m.map, usb_ep)
        m1 == StoreMapping(m, dbm_ep, 0)
        data == msm_dbm_read_reg(m1, DBM_EP_CFG(dbm_ep)) \ {0}
        m2 == msm_dbm_write_reg(m1, DBM_EP_CFG(dbm_ep), data)
        m3 == dbm_ep_soft_reset(m2, dbm_ep, TRUE).m
        m4 == dbm_ep_soft_reset(m3, dbm_ep, FALSE).m
        m5 == udelay(m4, 10)
    IN  IF dbm_ep < 0 THEN Result(m, -ENODEV)
        ELSE Result(m5, 0)

\* Mutant: the configuration register is written back with its enable bit.
ep_unconfig_keeps_enable(m, usb_ep) ==
    LET dbm_ep == msm_dbm_find_matching_dbm_ep(m.map, usb_ep)
        m1 == StoreMapping(m, dbm_ep, 0)
        data == msm_dbm_read_reg(m1, DBM_EP_CFG(dbm_ep))
        m2 == msm_dbm_write_reg(m1, DBM_EP_CFG(dbm_ep), data)
        m3 == dbm_ep_soft_reset(m2, dbm_ep, TRUE).m
        m4 == udelay(m3, 10)
        m5 == dbm_ep_soft_reset(m4, dbm_ep, FALSE).m
    IN  IF dbm_ep < 0 THEN Result(m, -ENODEV)
        ELSE Result(m5, 0)

ep_unconfig(m, usb_ep) ==
    LET dbm_ep == msm_dbm_find_matching_dbm_ep(m.map, usb_ep)
        m1 == StoreMapping(m, dbm_ep, 0)
        data == msm_dbm_read_reg(m1, DBM_EP_CFG(dbm_ep)) \ {0}
        m2 == msm_dbm_write_reg(m1, DBM_EP_CFG(dbm_ep), data)
        m3 == dbm_ep_soft_reset(m2, dbm_ep, TRUE).m
        m4 == udelay(m3, 10)
        m5 == dbm_ep_soft_reset(m4, dbm_ep, FALSE).m
    IN  IF dbm_ep < 0 THEN Result(m, -ENODEV)
        ELSE Result(m5, 0)

get_num_of_eps_configured(map) ==
    Cardinality({ i \in 0 .. DBM_1_5_NUM_EP - 1 : map[i] # 0 })

\* Mutant: the size is validated after the address registers are written.
event_buffer_config_late_check(m, addr_lo, addr_hi, size) ==
    LET m1 == msm_dbm_write_reg(m, DBM_GEVNTADR_LSB, addr_lo)
        m2 == msm_dbm_write_reg(m1, DBM_GEVNTADR_MSB, addr_hi)
        m3 == WriteField(m2, DBM_GEVNTSIZ, DBM_GEVNTSIZ_MASK, ToBits(size))
    IN  IF size < 0 THEN Result(m2, -EINVAL) ELSE Result(m3, 0)

event_buffer_config(m, addr_lo, addr_hi, size) ==
    IF size < 0 THEN Result(m, -EINVAL)
    ELSE LET m1 == msm_dbm_write_reg(m, DBM_GEVNTADR_LSB, addr_lo)
             m2 == msm_dbm_write_reg(m1, DBM_GEVNTADR_MSB, addr_hi)
             m3 == WriteField(m2, DBM_GEVNTSIZ, DBM_GEVNTSIZ_MASK, ToBits(size))
         IN  Result(m3, 0)

\* Mutant: the slot index is validated as dbm_ep_soft_reset validates it.
data_fifo_config_checked(m, dep_num, addr, size, dst_pipe_idx) ==
    LET dbm_ep == dst_pipe_idx
        m1 == StoreMapping(m, dbm_ep, dep_num)
        m2 == msm_dbm_write_reg(m1, DBM_DATA_FIFO_LSB(dbm_ep), lower_32_bits(addr))
        m3 == msm_dbm_write_reg(m2, DBM_DATA_FIFO_MSB(dbm_ep), upper_32_bits(addr))
        m4 == WriteField(m3, DBM_DATA_FIFO_SIZE(dbm_ep), DBM_DATA_FIFO_SIZE_MASK, size)
    IN  IF dbm_ep >= DBM_1_5_NUM_EP THEN Result(m, -ENODEV) ELSE Result(m4, 0)

\* Mutant: index and value of the table store are exchanged.
data_fifo_config_swapped_store(m, dep_num, addr, size, dst_pipe_idx) ==
    LET dbm_ep == dst_pipe_idx
        m1 == StoreMapping(m, dep_num, dbm_ep)
        m2 == msm_dbm_write_reg(m1, DBM_DATA_FIFO_LSB(dbm_ep), lower_32_bits(addr))
        m3 == msm_dbm_write_reg(m2, DBM_DATA_FIFO_MSB(dbm_ep), upper_32_bits(addr))
        m4 == WriteField(m3, DBM_DATA_FIFO_SIZE(dbm_ep), DBM_DATA_FIFO_SIZE_MASK, size)
    IN  Result(m4, 0)

data_fifo_config(m, dep_num, addr, size, dst_pipe_idx) ==
    LET dbm_ep == dst_pipe_idx
        lo == lower_32_bits(addr)
        hi == upper_32_bits(addr)
        m1 == StoreMapping(m, dbm_ep, dep_num)
        m2 == msm_dbm_write_reg(m1, DBM_DATA_FIFO_LSB(dbm_ep), lo)
        m3 == msm_dbm_write_reg(m2, DBM_DATA_FIFO_MSB(dbm_ep), hi)
        m4 == WriteField(m3, DBM_DATA_FIFO_SIZE(dbm_ep), DBM_DATA_FIFO_SIZE_MASK, size)
    IN  Result(m4, 0)

\* set_speed and enable return nothing; 0 stands for their return.
set_speed(m, speed) ==
    Result(msm_dbm_write_reg(m, DBM_GEN_CFG, IF speed THEN ToBits(1) ELSE ToBits(0)), 0)

enable(m) ==
    LET m1 == msm_dbm_write_reg(m, DBM_DATA_FIFO_ADDR_EN, ToBits(255))
        m2 == msm_dbm_write_reg(m1, DBM_DATA_FIFO_SIZE_EN, ToBits(255))
    IN  Result(m2, 0)

(* ------------------------------ actions -------------------------------- *)

\* The device context and register window as a call finds them.
Machine == [map |-> ep_num_mapping, regs |-> regs, oob |-> oob,
            log |-> <<>>, wrap |-> ub_shl]

\* A call returns: its effects and return value become the state; at most
\* limit calls are explored.
Commit(limit, r, name, a) ==
    /\ calls < limit
    /\ ep_num_mapping' = r.m.map
    /\ regs' = r.m.regs
    /\ oob' = r.m.oob
    /\ log' = r.m.log
    /\ ret' = r.ret
    /\ op' = name
    /\ args' = a
    /\ prev' = [op |-> op, args |-> args, ret |-> ret, log |-> log]
    /\ calls' = calls + 1
    /\ UNCHANGED <<ub_shl, fw>>

Return(r, name, a) == Commit(MaxCalls, r, name, a)

DataFifoConfig ==
    \E dep_num \in Eps, idx \in PipeIdxs :
        Return(data_fifo_config(Machine, dep_num, FifoAddr, FifoSize, idx),
               "data_fifo_config",
               [NoArgs EXCEPT !.usb_ep = dep_num, !.idx = idx, !.size = 4096])

EpConfig ==
    \E usb_ep \in Eps, f \in CfgFlags :
        Return(ep_config(Machine, usb_ep, 0, f[1], f[2], f[3], f[4]),
               "ep_config",
               [NoArgs EXCEPT !.usb_ep = usb_ep, !.producer = f[1],
                              !.disable_wb = f[2], !.internal_mem = f[3],
                              !.ioc = f[4]])

EpUnconfig ==
    \E usb_ep \in Eps :
        Return(ep_unconfig(Machine, usb_ep), "ep_unconfig",
               [NoArgs EXCEPT !.usb_ep = usb_ep])

EventBufferConfig ==
    \E size \in EvtSizes :
        Return(event_buffer_config(Machine, EvtAddrLo, EvtAddrHi, size),
               "event_buffer_config", [NoArgs EXCEPT !.size = size])

SoftReset ==
    \E reset \in BOOLEAN :
        Return(soft_reset(Machine, reset), "soft_reset", [NoArgs EXCEPT !.on = reset])

SetSpeed ==
    \E speed \in BOOLEAN :
        Return(set_speed(Machine, speed), "set_speed", [NoArgs EXCEPT !.on = speed])

Enable == Return(enable(Machine), "enable", NoArgs)

\* After msm_dbm_probe: devm_kzalloc zeroes the table; the register window
\* is taken to read as zero.
InitCtx ==
    /\ ep_num_mapping = [i \in 0 .. DBM_1_5_NUM_EP - 1 |-> 0]
    /\ regs = [o \in RegOffsets |-> {}]
    /\ oob = {}
    /\ op = "none"
    /\ args = NoArgs
    /\ ret = 0
    /\ log = <<>>
    /\ prev = NoCall
    /\ calls = 0
    /\ ub_shl \in BOOLEAN

Init == InitCtx /\ fw = NoFw

Next ==
    \/ SoftReset
    \/ DataFifoConfig
    \/ EpConfig
    \/ EpUnconfig
    \/ EventBufferConfig
    \/ SetSpeed
    \/ Enable

Spec == Init /\ [][Next]_vars

(* ------------- the same entry points, one call deeper ------------------ *)

\* Bind, configure, unconfigure, bind again, configure again takes five
\* calls; the entry points are offered fewer inputs so that this depth is
\* explored in full: a narrow and a wide endpoint number, the first and the
\* last slot.
RoundTripReturn(r, name, a) == Commit(MaxRoundTripCalls, r, name, a)

RoundTripDataFifoConfig ==
    \E dep_num \in RoundTripEps, idx \in RoundTripIdxs :
        RoundTripReturn(data_fifo_config(Machine, dep_num, FifoAddr, FifoSize, idx),
                        "data_fifo_config",
                        [NoArgs EXCEPT !.usb_ep = dep_num, !.idx = idx,
                                       !.size = 4096])

RoundTripEpConfig ==
    \E usb_ep \in RoundTripEps, f \in CfgFlags :
        RoundTripReturn(ep_config(Machine, usb_ep, 0, f[1], f[2], f[3], f[4]),
                        "ep_config",
                        [NoArgs EXCEPT !.usb_ep = usb_ep, !.producer = f[1],
                                       !.disable_wb = f[2], !.internal_mem = f[3],
                                       !.ioc = f[4]])

RoundTripEpUnconfig ==
    \E usb_ep \in RoundTripEps :
        RoundTripReturn(ep_unconfig(Machine, usb_ep), "ep_unconfig",
                        [NoArgs EXCEPT !.usb_ep = usb_ep])

RoundTripEventBufferConfig ==
    \E size \in EvtSizes :
        RoundTripReturn(event_buffer_config(Machine, EvtAddrLo, EvtAddrHi, size),
                        "event_buffer_config", [NoArgs EXCEPT !.size = size])

RoundTripSoftReset ==
    \E reset \in BOOLEAN :
        RoundTripReturn(soft_reset(Machine, reset), "soft_reset",
                        [NoArgs EXCEPT !.on = reset])

RoundTripSetSpeed ==
    \E speed \in BOOLEAN :
        RoundTripReturn(set_speed(Machine, speed), "set_speed",
                        [NoArgs EXCEPT !.on = speed])

RoundTripEnable == RoundTripReturn(enable(Machine), "enable", NoArgs)

NextRoundTrip ==
    \/ RoundTripDataFifoConfig
    \/ RoundTripEpConfig
    \/ RoundTripEpUnconfig
    \/ RoundTripEventBufferConfig
    \/ RoundTripSoftReset
    \/ RoundTripSetSpeed
    \/ RoundTripEnable

SpecRoundTrip == Init /\ [][NextRoundTrip]_vars


(* ---------------- the masked field write on its own -------------------- *)

\* Register contents, masks and values for one msm_dbm_write_reg_field call:
\* the masks the driver passes (and the empty mask that MASK & 1 << n gives
\* for a bit outside MASK), values that fit their field and values that do not.
FwRegs == { {}, W32, {2, 3, 4, 5, 8, 9, 10, 11, 16, 18, 21, 23} }
FwMasks == { DBM_EN_EP, USB3_EPNUM,
             DBM_PRODUCER \cup DBM_DISABLE_WB \cup DBM_INT_RAM_ACC,
             DBM_GEVNTSIZ_MASK, DBM_SFT_RST_MASK, {3}, {} }
FwVals == { ToBits(0), ToBits(1), ToBits(3), ToBits(33), ToBits(4096), ToBits(69632) }

InitField ==
    /\ InitCtx
    /\ fw \in [reg : FwRegs, mask : FwMasks, val : FwVals, out : {{}}, done : {FALSE}]

FieldWrite ==
    /\ ~fw.done
    /\ fw' = [fw EXCEPT !.out = msm_dbm_write_reg_field(fw.reg, fw.mask, fw.val, ub_shl),
                        !.done = TRUE]
    /\ UNCHANGED <<ep_num_mapping, regs, oob, op, args, ret, log, prev, calls, ub_shl>>

NextField == FieldWrite

SpecField == InitField /\ [][NextField]_vars


(* ============================ properties =============================== *)

Slots == 0 .. DBM_1_5_NUM_EP - 1

\* Slots whose table entry is e.
SlotsOf(map, e) == { i \in Slots : map[i] = e }

Enabled(r, S) == 0 \in r[DBM_EP_CFG(S)]

\* The endpoint-number field of slot S's configuration register.
EpNumField(r, S) == Shr(r[DBM_EP_CFG(S)] \cap USB3_EPNUM, 1)

Bit(b) == IF b THEN {0} ELSE {}

\* The slot the last ep_config call resolved (ep_config never changes the
\* table, so the lookup gives now what it gave the call).
ResolvedSlot == msm_dbm_find_matching_dbm_ep(ep_num_mapping, args.usb_ep)

(* ------------------------------- C1 ------------------------------------ *)

\* C1, as stated: an endpoint bound to a slot in 0..6 is configured as
\* consumer (producer = FALSE) successfully; on slot 7 the consumer direction
\* always fails and the producer direction always succeeds.
C1_Slot7ConsumerRefused ==
    op = "ep_config" /\ ResolvedSlot >= 0 =>
        /\ (ResolvedSlot <= 6 /\ ~args.producer => ret = ResolvedSlot)
        /\ (ResolvedSlot = 7 /\ ~args.producer => ret = -ENODEV)
        /\ (ResolvedSlot = 7 /\ args.producer => ret = 7)

\* C1, amended: on slots 0..6 both directions succeed; on slot 7 it is the
\* producer direction that always fails (with -ENODEV, nothing written) and
\* the consumer direction that always succeeds.
C1_Slot7ProducerRefused ==
    op = "ep_config" /\ ResolvedSlot >= 0 =>
        /\ (ResolvedSlot <= 6 => ret = ResolvedSlot)
        /\ (ResolvedSlot = 7 /\ args.producer => ret = -ENODEV /\ log = <<>>)
        /\ (ResolvedSlot = 7 /\ ~args.producer => ret = 7 /\ Enabled(regs, 7))

C1_Witness ==
    /\ op = "ep_config" /\ ResolvedSlot = 7 /\ args.usb_ep # 0
    /\ args.producer /\ ret = -ENODEV
    /\ prev.op = "ep_config" /\ prev.ret = 7 /\ ~prev.args.producer

(* ------------------------------- C2 ------------------------------------ *)

Unique(map) == \A e \in Eps \ {0} : Cardinality(SlotsOf(map, e)) <= 1

\* C2, as stated: in every reachable state each non-zero logical endpoint
\* number is held by at most one slot of the table.
C2_EndpointInOneSlot == Unique(ep_num_mapping)

\* C2, amended: ep_config and ep_unconfig never add an occurrence of a
\* number to the table, and data_fifo_config keeps the entries unique when the
\* number it binds is held by no other slot; nothing in the code refuses a
\* bind that breaks this.
C2_UniqueUnlessReboundElsewhere ==
    [][ /\ (op' # "data_fifo_config" =>
              \A e \in Eps \ {0} :
                  SlotsOf(ep_num_mapping', e) \subseteq SlotsOf(ep_num_mapping, e))
        /\ (/\ op' = "data_fifo_config"
            /\ Unique(ep_num_mapping)
            /\ SlotsOf(ep_num_mapping, args'.usb_ep) \subseteq {args'.idx}
            => Unique(ep_num_mapping'))
        /\ (op' = "data_fifo_config" /\ args'.idx \in Slots =>
              /\ ep_num_mapping'[args'.idx] = args'.usb_ep
              /\ \A i \in Slots \ {args'.idx} : ep_num_mapping'[i] = ep_num_mapping[i])
      ]_vars

C2_Witness ==
    /\ op = "data_fifo_config" /\ ret = 0
    /\ ep_num_mapping[0] = 1 /\ ep_num_mapping[7] = 162
    /\ Unique(ep_num_mapping)

(* ------------------------------- C3 ------------------------------------ *)

\* C3, as stated: ep_config(E) and ep_unconfig(E) return the not-found
\* error whenever no slot is bound to E; E = 0 marks an unassigned slot and is
\* bound to none.
C3_UnboundIsNotFound ==
    [][ /\ op' \in {"ep_config", "ep_unconfig"}
        /\ (args'.usb_ep = 0 \/ SlotsOf(ep_num_mapping, args'.usb_ep) = {})
        => ret' = -ENODEV ]_vars

(* ------------------------------- C4 ------------------------------------ *)

\* C4: a call that returns an error has written no register and has left
\* the table as it was; ep_config of an unbound endpoint or of a refused
\* direction on slot 7, ep_unconfig of an unbound endpoint and
\* event_buffer_config of a negative size are such calls.
C4_FailedCallChangesNothing ==
    [][ /\ (ret' < 0 =>
              /\ log' = <<>>
              /\ regs' = regs
              /\ ep_num_mapping' = ep_num_mapping
              /\ oob' = oob)
        /\ (op' = "event_buffer_config" /\ args'.size < 0 => ret' = -EINVAL)
        /\ (/\ op' \in {"ep_config", "ep_unconfig"}
            /\ SlotsOf(ep_num_mapping, args'.usb_ep) = {}
            => ret' = -ENODEV)
        /\ (/\ op' = "ep_config"
            /\ msm_dbm_find_matching_dbm_ep(ep_num_mapping, args'.usb_ep) = 7
            /\ args'.producer
            => ret' = -ENODEV)
      ]_vars

C4_Witness ==
    /\ op = "event_buffer_config" /\ ret = -EINVAL /\ log = <<>>
    /\ prev.op = "ep_config" /\ prev.ret = -ENODEV /\ prev.log = <<>>
    /\ ep_num_mapping[7] = prev.args.usb_ep /\ prev.args.usb_ep # 0
    /\ regs[DBM_DATA_FIFO_SIZE(7)] # {}


(* ------------------------------- C5 ------------------------------------ *)

CfgFlagsMask == DBM_PRODUCER \cup DBM_DISABLE_WB \cup DBM_INT_RAM_ACC

\* C5: a successful ep_config writes, on the slot it resolved and in this
\* order, the slot's reset bit (deassert), the slot's interrupt-on-completion
\* bit, the direction/write-back flags, the endpoint-number field and the
\* enable bit; the enable write is its last write and it returns the slot.
C5_EnableWrittenLast ==
    op = "ep_config" /\ ret >= 0 =>
        /\ ret = ResolvedSlot
        /\ Len(log) = 5
        /\ \A i \in 1 .. 5 : log[i].k = "field"
        /\ log[1].off = DBM_SOFT_RESET /\ log[1].mask = {ret} /\ log[1].val = {}
        /\ log[2].off = DBM_DBG_CNFG /\ log[2].mask = {ret}
        /\ log[2].val = Bit(args.ioc)
        /\ log[3].off = DBM_EP_CFG(ret) /\ log[3].mask = CfgFlagsMask
        /\ log[3].val = Bit(args.producer) \cup Shl(Bit(args.disable_wb), 1)
        /\ log[4].off = DBM_EP_CFG(ret) /\ log[4].mask = USB3_EPNUM
        /\ log[4].val = ToBits(args.usb_ep)
        /\ log[5].off = DBM_EP_CFG(ret) /\ log[5].mask = DBM_EN_EP
        /\ log[5].val = {0}
        /\ (0 \in log[3].new) = (0 \in log[3].old)
        /\ (0 \in log[4].new) = (0 \in log[3].old)
        /\ regs[DBM_EP_CFG(ret)] = log[5].new
        /\ Enabled(regs, ret)
        /\ ret \notin regs[DBM_SOFT_RESET]

C5_Witness ==
    /\ op = "ep_config" /\ ret = 7 /\ args.ioc /\ args.disable_wb
    /\ args.usb_ep # 0
    /\ 0 \notin log[5].old /\ 0 \in log[5].new

(* ------------------------------- C6 ------------------------------------ *)

\* C6: a successful ep_unconfig(E) on the slot S bound to E clears table
\* entry S, clears only the enable bit of slot S's configuration register,
\* asserts slot S's reset bit, waits 10 microseconds and only then deasserts
\* it; at return entry S is 0, the enable bit is clear and the reset bit is
\* deasserted.
C6_ResetCycleAfterDisable ==
    op = "ep_unconfig" /\ ret = 0 =>
        /\ Len(log) = 5
        /\ LET S == log[1].off IN
            /\ S \in Slots
            /\ log[1].k = "map" /\ log[1].old = ToBits(args.usb_ep)
            /\ log[1].val = {}
            /\ \A i \in Slots : i < S => ep_num_mapping[i] # args.usb_ep \/ args.usb_ep = 0
            /\ log[2].k = "write" /\ log[2].off = DBM_EP_CFG(S)
            /\ log[2].new = log[2].old \ {0}
            /\ log[3].k = "field" /\ log[3].off = DBM_SOFT_RESET
            /\ log[3].mask = {S} /\ log[3].val = {0}
            /\ log[3].new = log[3].old \cup {S}
            /\ log[4].k = "udelay" /\ log[4].off = 10
            /\ log[5].k = "field" /\ log[5].off = DBM_SOFT_RESET
            /\ log[5].mask = {S} /\ log[5].val = {}
            /\ log[5].old = log[3].new
            /\ log[5].new = log[5].old \ {S}
            /\ ep_num_mapping[S] = 0
            /\ ~Enabled(regs, S)
            /\ S \notin regs[DBM_SOFT_RESET]

C6_Witness ==
    /\ op = "ep_unconfig" /\ ret = 0 /\ args.usb_ep # 0
    /\ log[1].off = 7
    /\ 0 \in log[2].old /\ log[2].new # {}
    /\ prev.op = "ep_config" /\ prev.ret = 7

(* ------------------------------- C7 ------------------------------------ *)

\* The last call was a successful ep_unconfig of an enabled slot.
UnconfiguredEnabledSlot ==
    /\ op = "ep_unconfig" /\ ret = 0
    /\ Len(log) = 5 /\ log[1].k = "map" /\ 0 \in log[2].old

\* Slot S is configured for endpoint E as the flags of a ask.
ConfiguredAs(map, r, S, E, a) ==
    /\ map[S] = E
    /\ Enabled(r, S)
    /\ EpNumField(r, S) = ToBits(E)
    /\ (8 \in r[DBM_EP_CFG(S)]) = a.producer
    /\ (9 \in r[DBM_EP_CFG(S)]) = a.disable_wb
    /\ 10 \notin r[DBM_EP_CFG(S)]
    /\ (S \in r[DBM_DBG_CNFG]) = a.ioc

\* The low five bits of an endpoint number: what fits the 5-bit field.
LowFive(E) == ToBits(E) \cap (0 .. 4)

\* What a successful ep_config(E, flags a) leaves in slot S for any 8-bit E:
\* E << 1 is OR-ed into the register whole, so the field holds E's low five
\* bits, E's bits 5 and 6 land in register bits 6 and 7, and E's bit 7 lands
\* on the producer bit.
ConfiguredByWrites(map, r, S, E, a) ==
    /\ map[S] = E
    /\ Enabled(r, S)
    /\ EpNumField(r, S) = LowFive(E)
    /\ Shl(ToBits(E), 1) \subseteq r[DBM_EP_CFG(S)]
    /\ (8 \in r[DBM_EP_CFG(S)]) = (a.producer \/ 7 \in ToBits(E))
    /\ (9 \in r[DBM_EP_CFG(S)]) = a.disable_wb
    /\ 10 \notin r[DBM_EP_CFG(S)]
    /\ (S \in r[DBM_DBG_CNFG]) = a.ioc

\* C7, as stated: for a bound and configured endpoint E, ep_unconfig(E)
\* followed immediately by ep_config(E, same flags) succeeds and leaves the
\* slot bound to E, enabled and configured as requested.
C7_UnconfigConfigRoundTrip ==
    [][ /\ UnconfiguredEnabledSlot
        /\ op' = "ep_config"
        /\ args'.usb_ep = args.usb_ep
        /\ args'.producer = (8 \in log[2].old)
        /\ args'.disable_wb = (9 \in log[2].old)
        /\ args'.ioc = (log[1].off \in regs[DBM_DBG_CNFG])
        => /\ ret' = log[1].off
           /\ ConfiguredAs(ep_num_mapping', regs', log[1].off, args.usb_ep, args')
      ]_vars

\* C7, amended: after a successful ep_unconfig(E) that resolved slot S the
\* endpoint is unbound, so an immediate ep_config(E) returns -ENODEV, writes
\* nothing and leaves S unassigned and disabled (E non-zero and held by no
\* other slot).  When data_fifo_config(E, S) binds S again between the two
\* calls, ep_config(E, flags) returns S (on slot 7 only for a consumer) and
\* leaves S bound to E and enabled, with the write-back and
\* interrupt-on-completion settings as requested, the endpoint-number field
\* holding E's low five bits and the producer bit holding "producer
\* requested, or bit 7 of E set"; for E below 32 that is the slot configured
\* exactly as requested.
C7_RoundTripNeedsRebind ==
    [][ /\ (/\ op = "ep_unconfig" /\ ret = 0
            /\ args.usb_ep # 0
            /\ SlotsOf(ep_num_mapping, args.usb_ep) = {}
            /\ op' = "ep_config"
            /\ args'.usb_ep = args.usb_ep
            => /\ ret' = -ENODEV
               /\ log' = <<>>
               /\ ep_num_mapping'[log[1].off] = 0
               /\ ~Enabled(regs', log[1].off))
        /\ (/\ prev.op = "ep_unconfig" /\ prev.ret = 0
            /\ op = "data_fifo_config"
            /\ args.usb_ep = prev.args.usb_ep
            /\ args.idx = prev.log[1].off
            /\ op' = "ep_config"
            /\ args'.usb_ep = args.usb_ep
            /\ ~(args.idx = 7 /\ args'.producer)
            => /\ ret' = args.idx
               /\ ConfiguredByWrites(ep_num_mapping', regs', args.idx,
                                     args.usb_ep, args')
               /\ (args.usb_ep < 32 =>
                     ConfiguredAs(ep_num_mapping', regs', args.idx,
                                  args.usb_ep, args')))
      ]_vars

\* The round trip completed on a slot that had been configured for the wide
\* endpoint 162, unconfigured (enable clear, entry 0, field still holding
\* 162's low five bits) and bound again: ep_config returned the slot, and
\* the consumer request left the producer bit set.
C7_Witness ==
    /\ op = "ep_config" /\ ret \in Slots
    /\ args.usb_ep = 162 /\ ~args.producer
    /\ prev.op = "data_fifo_config" /\ prev.ret = 0
    /\ prev.args.usb_ep = args.usb_ep /\ prev.args.idx = ret
    /\ prev.log[1].k = "map" /\ prev.log[1].old = {}
    /\ Len(log) = 5
    /\ log[4].old \cap USB3_EPNUM = Shl(LowFive(args.usb_ep), 1)
    /\ 0 \notin log[5].old
    /\ ConfiguredByWrites(ep_num_mapping, regs, ret, args.usb_ep, args)
    /\ 8 \in regs[DBM_EP_CFG(ret)]
    /\ EpNumField(regs, ret) # ToBits(args.usb_ep)

(* ------------------------------- C8 ------------------------------------ *)

\* C8, as stated: a masked field write under a contiguous mask leaves every
\* bit outside the mask as it was and sets the bits inside the mask to the
\* value shifted to the mask's lowest set bit, whatever the value.
C8_FieldWriteKeepsOtherBits ==
    fw.done /\ fw.mask # {} =>
        /\ fw.out \ fw.mask = fw.reg \ fw.mask
        /\ fw.out \cap fw.mask = Shl(fw.val, SetMin(fw.mask)) \cap fw.mask

(* ------------------------------- C9 ------------------------------------ *)

\* C9: data_fifo_config with dst_pipe_idx >= 8 returns 0, stores the
\* logical endpoint number at that index, past the 8-entry table, and writes
\* the FIFO address and size registers computed from that index.
C9_PipeIndexUnchecked ==
    op = "data_fifo_config" /\ args.idx >= DBM_1_5_NUM_EP =>
        /\ ret = 0
        /\ <<args.idx, args.usb_ep>> \in oob
        /\ Len(log) = 4
        /\ log[1].k = "map" /\ log[1].off = args.idx
        /\ log[1].off \notin DOMAIN ep_num_mapping
        /\ log[1].val = ToBits(args.usb_ep)
        /\ log[2].k = "write" /\ log[2].off = 256 + 8 * args.idx
        /\ log[3].k = "write" /\ log[3].off = 260 + 8 * args.idx
        /\ log[4].k = "field" /\ log[4].off = 128 + 4 * args.idx
        /\ regs[256 + 8 * args.idx] = {13}
        /\ regs[260 + 8 * args.idx] = {0}
        /\ regs[128 + 4 * args.idx] = {12}

C9_Witness ==
    /\ op = "data_fifo_config" /\ args.idx = 8 /\ args.usb_ep = 162 /\ ret = 0
    /\ <<8, 162>> \in oob
    /\ regs[320] = {13}

(* ------------------------------- C10 ----------------------------------- *)

\* The endpoint-number field of slot S holds the low five bits of the
\* slot's table entry whenever the slot is enabled.
EntryMatchesField(map, r, S) ==
    Enabled(r, S) => EpNumField(r, S) = LowFive(map[S])

\* C10, as stated: every enabled slot has a non-zero table entry, equal to
\* the endpoint-number field of its configuration register.
C10_EnabledSlotIsBound ==
    \A S \in Slots :
        Enabled(regs, S) =>
            ep_num_mapping[S] # 0 /\ ToBits(ep_num_mapping[S]) = EpNumField(regs, S)

\* C10, amended: every call other than data_fifo_config keeps, slot by slot,
\* "enabled implies the endpoint-number field holds the low five bits of the
\* table entry"; a successful ep_config(E) leaves its slot enabled with
\* entry E (E may be 0) and the field holding E's low five bits, which is E
\* itself exactly when E is below 32; data_fifo_config rewrites the entry of
\* an enabled slot without touching its enable bit or its field.
C10_EntryMatchesFieldUnlessRebound ==
    [][ /\ (op' # "data_fifo_config" =>
              \A S \in Slots :
                  EntryMatchesField(ep_num_mapping, regs, S)
                      => EntryMatchesField(ep_num_mapping', regs', S))
        /\ (op' = "ep_config" /\ ret' >= 0 =>
              /\ Enabled(regs', ret')
              /\ ep_num_mapping'[ret'] = args'.usb_ep
              /\ EpNumField(regs', ret') = LowFive(args'.usb_ep)
              /\ (EpNumField(regs', ret') = ToBits(args'.usb_ep))
                    = (args'.usb_ep < 32))
        /\ (op' = "data_fifo_config" /\ args'.idx \in Slots =>
              /\ Enabled(regs', args'.idx) = Enabled(regs, args'.idx)
              /\ EpNumField(regs', args'.idx) = EpNumField(regs, args'.idx)
              /\ ep_num_mapping'[args'.idx] = args'.usb_ep)
      ]_vars

\* Slot 0 was configured for the wide endpoint 162 (enabled, entry 162, field
\* 2, bits of 162 << 1 spilt past the field) and data_fifo_config then bound
\* it to endpoint 1: an enabled slot whose entry and field disagree.
C10_Witness ==
    /\ op = "data_fifo_config" /\ args.idx = 0 /\ args.usb_ep = 1
    /\ prev.op = "ep_config" /\ prev.ret = 0 /\ prev.args.usb_ep = 162
    /\ Enabled(regs, 0)
    /\ EpNumField(regs, 0) = LowFive(162)
    /\ EpNumField(regs, 0) # ToBits(162)
    /\ {6, 8} \subseteq regs[DBM_EP_CFG(0)]
    /\ ep_num_mapping[0] = 1
    /\ ~EntryMatchesField(ep_num_mapping, regs, 0)

==========================================================================
